---------------------------- MODULE Spec2Model ----------------------------
(***************************************************************************)
(* A state-machine model of src/stress_plot.py: the script that reads a    *)
(* CSV of HRV measurements and renders grouped box plots, jittered scatter *)
(* points and a per-subject threshold marker to hrv_stress_plot.png.       *)
(*                                                                         *)
(* Representation.                                                         *)
(*  - A column name is a sequence of tokens; " " is a whitespace token, so *)
(*    "HRV (ms)" is <<"HRV", " ", "(ms)">> and its interior space is kept  *)
(*    apart from padding around the name.                                  *)
(*  - Horizontal positions are in hundredths of an axis unit: subject i    *)
(*    has base position 100 * i, offset 0.2 is 20, jitter 0.04 is 4.       *)
(*  - HRV cells are whole milliseconds.  Statistics (median, midpoint) are *)
(*    held in quarters of a millisecond, so that the halves a median of an *)
(*    even group produces and the quarters a midpoint produces are exact.  *)
(***************************************************************************)
EXTENDS Integers, Sequences, FiniteSets, TLC

VARIABLES
    pc,        \* position in the script
    argv,      \* command line: <<>> or <<path>>
    fileState, \* what the path resolves to: "missing", "unreadable", "ok"
    csv,       \* content of the file: [header, rows], rows positional
    image,     \* hrv_stress_plot.png: "untouched" (as it was before the
               \* run, if it was there at all) or "plot"
    saves,     \* number of savefig calls made
    stdout,    \* lines printed by the script, in order
    exc,       \* uncaught exception that ended the run, or "none"
    stderr,    \* what the interpreter wrote about an uncaught exception
    df,        \* the DataFrame: [columns, rows]
    figure,    \* whether plt.figure has been called
    subjects,  \* df['Subject'].unique()
    i,         \* index of the subject being drawn (0-based, as enumerate)
    category,  \* index into Categories of the group being drawn
    medians,   \* the medians dict of the current subject
    boxes,     \* box plots drawn, in order
    points,    \* scatter points drawn, in order
    markers,   \* threshold markers drawn, in order
    xticks,    \* tick positions and labels set by plt.xticks
    shown      \* outcome of plt.show: "no", "window", "failed"

vars == <<pc, argv, fileState, csv, image, saves, stdout, exc, stderr, df,
          figure, subjects, i, category, medians, boxes, points, markers, xticks,
          shown>>

---------------------------------------------------------------------------
(* Bounds of the model *)

MaxPad == 1
MaxRows == 2

(* Program constants, in the units stated above *)

offset == 20
box_width == 15
jitterMax == 4

---------------------------------------------------------------------------
(* Names *)

SubjectCol == <<"Subject">>
HRVCol == <<"HRV", " ", "(ms)">>
StressCol == <<"Stress", " ", "or", " ", "not">>
AgeCol == <<"Age">>

required == <<SubjectCol, HRVCol, StressCol>>

Categories == <<"Yes", "No">>

output_png == "hrv_stress_plot.png"

Range(s) == {s[k] : k \in DOMAIN s}

IsSpace(ch) == ch \in {" ", "\t"}

\* str.strip(): drop the whitespace before the first and after the last
\* non-whitespace character; whitespace between them stays
RECURSIVE LStrip(_)
LStrip(c) ==
    IF c # <<>> /\ IsSpace(Head(c)) THEN LStrip(Tail(c)) ELSE c

RECURSIVE RStrip(_)
RStrip(c) ==
    IF c # <<>> /\ IsSpace(c[Len(c)])
    THEN RStrip(SubSeq(c, 1, Len(c) - 1))
    ELSE c

\* lstrip() written for strip(): trailing whitespace stays
StripLeftOnly(c) == LStrip(c)

strip(c) == RStrip(LStrip(c))

---------------------------------------------------------------------------
(* Inputs: the files the script is run on *)

SubjectIds == {"A", "B"}
HRVValues == {50, 70}
Labels == {"Yes", "No", "Maybe"}
NaN == "NaN"

Spaces(n) == [k \in 1..n |-> " "]

Pads == {Spaces(n) : n \in 0..MaxPad}

Col(core, l, r) == [core |-> core, l |-> l, r |-> r]

Plain(core) == Col(core, <<>>, <<>>)

PaddedCols(cores) == {Col(c, l, r) : c \in cores, l \in Pads, r \in Pads}

Row(s, v, c) == [subject |-> s, hrv |-> v, stress |-> c, age |-> 30]

RowKinds == {Row(s, v, c) : s \in SubjectIds, v \in HRVValues, c \in Labels}

SeqsUpTo(S, n) == UNION {[1..m -> S] : m \in 0..n}

\* the header in the order and spelling of HRV.csv
Canonical == <<Plain(SubjectCol), Plain(HRVCol), Plain(StressCol)>>

\* the same columns reordered, padded with blanks and tabs, with one
\* column the script has no use for
Styled ==
    << Col(StressCol, <<" ">>, <<"\t">>), Col(AgeCol, <<>>, <<" ">>),
       Col(HRVCol, <<"\t", " ">>, <<>>),
       Col(SubjectCol, <<" ">>, <<" ", " ">>) >>

\* every header of three columns, each any of the four names with up to
\* MaxPad blanks on either side
Layouts3 == [1..3 -> PaddedCols({SubjectCol, HRVCol, StressCol, AgeCol})]

\* the canonical header with a fourth column before or after it
Layouts4 ==
    UNION {{<<x>> \o Canonical, Canonical \o <<x>>} :
              x \in PaddedCols({SubjectCol, AgeCol})}

\* the tables of section 8 of the specification
ExampleOrder ==
    << Row("B", 50, "Yes"), Row("A", 50, "No"), Row("B", 70, "No"),
       Row("C", 70, "Yes"), Row("A", 70, "Yes") >>

ExampleThreshold ==
    << Row("X", 40, "Yes"), Row("Y", 50, "Yes"), Row("Y", 70, "No"),
       Row("Y", 90, "Yes"), Row("Y", 10, "Yes"), Row("X", 40, "Other") >>

ExampleMedian ==
    << Row("A", 46, "Yes"), Row("A", 40, "Yes"), Row("A", 44, "Yes"),
       Row("A", 42, "Yes") >>

Examples == {ExampleOrder, ExampleThreshold, ExampleMedian}

SmallTable == << Row("B", 70, "Yes"), Row("B", 50, "No") >>

\* every table of up to MaxRows rows under the canonical header, and the
\* examples under both headers
TableScenarios ==
    {[layout |-> Canonical, table |-> t] : t \in SeqsUpTo(RowKinds, MaxRows)}
    \cup
    {[layout |-> l, table |-> t] : l \in {Canonical, Styled}, t \in Examples}

\* a table or two under every other header
HeaderScenarios ==
    {[layout |-> l, table |-> SmallTable] : l \in Layouts3}
    \cup
    {[layout |-> l, table |-> t] :
        l \in Layouts4, t \in {SmallTable, ExampleThreshold}}

CellOf(row, core) ==
    CASE core = SubjectCol -> row.subject
      [] core = HRVCol -> row.hrv
      [] core = StressCol -> row.stress
      [] OTHER -> row.age

\* the text of the file: the header line as written, then one line per row
\* with its cells in the order of the header
FileOf(layout, table) ==
    [ header |-> [j \in DOMAIN layout |->
                     layout[j].l \o layout[j].core \o layout[j].r],
      rows |-> [r \in DOMAIN table |->
                   [j \in DOMAIN layout |-> CellOf(table[r], layout[j].core)]] ]

\* one printed line: what it says, and the values formatted into it
Line(kind, arg, found) == [kind |-> kind, arg |-> arg, found |-> found]

NoFile == [header |-> <<>>, rows |-> <<>>]

NoFrame == [columns |-> <<>>, rows |-> <<>>]

InitOn(scenarios) ==
    /\ pc = "main"
    /\ \/ /\ argv = <<"HRV.csv">>
          /\ fileState = "ok"
          /\ \E sc \in scenarios : csv = FileOf(sc.layout, sc.table)
       \/ /\ argv = <<"HRV.csv">>
          /\ fileState \in {"missing", "unreadable"}
          /\ csv = NoFile
       \/ /\ argv = <<>>
          /\ fileState = "missing"
          /\ csv = NoFile
    /\ image = "untouched"
    /\ saves = 0
    /\ stdout = <<Line("start", <<>>, <<>>)>>
    /\ exc = "none"
    /\ stderr = <<>>
    /\ df = NoFrame
    /\ figure = FALSE
    /\ subjects = <<>>
    /\ i = 0
    /\ category = 1
    /\ medians = <<>>
    /\ boxes = <<>>
    /\ points = <<>>
    /\ markers = <<>>
    /\ xticks = <<>>
    /\ shown = "no"

\* runs on tables of every shape
Init == InitOn(TableScenarios)

\* runs on headers of every shape
InitHeaders == InitOn(HeaderScenarios)

---------------------------------------------------------------------------
(* pandas and numpy operations the script calls *)

DupSuffix(k) == <<".1", ".2", ".3">>[k]

\* pd.read_csv names a column as the header spells it, whitespace
\* included; a spelling that occurred k times before gets the suffix .k
read_csv_columns(header) ==
    [j \in DOMAIN header |->
        LET k == Cardinality({m \in 1..(j - 1) : header[m] = header[j]})
        IN  IF k = 0 THEN header[j] ELSE header[j] \o <<DupSuffix(k)>>]

read_csv(file) ==
    [columns |-> read_csv_columns(file.header), rows |-> file.rows]

\* the positions of the columns carrying a label
Positions(frame, label) ==
    {j \in DOMAIN frame.columns : frame.columns[j] = label}

\* frame[label] when one column carries the label: its cells, row by row
Series(frame, label) ==
    LET j == CHOOSE j \in Positions(frame, label) : TRUE
    IN  [r \in DOMAIN frame.rows |-> frame.rows[r][j]]

\* a measurement as the float the column holds, in quarters of a millisecond
Float(v) == 4 * v

\* pd.Categorical(values, categories=['Yes', 'No']): a value outside the
\* categories becomes NaN
Categorical(values) ==
    [r \in DOMAIN values |->
        IF values[r] \in Range(Categories) THEN values[r] ELSE NaN]

\* the distinct values in order of last appearance
RECURSIVE UniqueByLast(_)
UniqueByLast(s) ==
    IF s = <<>> THEN <<>>
    ELSE LET u == UniqueByLast(Tail(s))
         IN  IF Head(s) \in Range(u) THEN u ELSE <<Head(s)>> \o u

\* Series.unique(): the distinct values in order of first appearance
RECURSIVE unique(_)
unique(s) ==
    IF s = <<>> THEN <<>>
    ELSE LET u == unique(SubSeq(s, 1, Len(s) - 1))
         IN  IF s[Len(s)] \in Range(u) THEN u ELSE Append(u, s[Len(s)])

\* s with v put before the first element larger than v
RECURSIVE Insert(_, _)
Insert(s, v) ==
    IF s = <<>> THEN <<v>>
    ELSE IF v <= Head(s) THEN <<v>> \o s
    ELSE <<Head(s)>> \o Insert(Tail(s), v)

RECURSIVE Sorted(_)
Sorted(s) == IF s = <<>> THEN <<>> ELSE Insert(Sorted(Tail(s)), Head(s))

\* the element past the middle of the sorted values, whatever their number
UpperMiddle(s) == Sorted(s)[(Len(s) \div 2) + 1]

\* Series.median() of a non-empty series: the middle value of the sorted
\* values, or the average of the two middle values
median(s) ==
    LET t == Sorted(s)
        n == Len(s)
    IN  IF n % 2 = 1 THEN t[(n + 1) \div 2]
        ELSE (t[n \div 2] + t[(n \div 2) + 1]) \div 2

\* np.random.uniform(-0.04, 0.04): the two ends of the range and its
\* middle stand for the values it can return
Jitters == {-jitterMax, 0, jitterMax}

---------------------------------------------------------------------------
(* create_hrv_plot, step by step *)

colors == [Yes |-> "#e67e22", No |-> "#2ecc71"]

Say(line) == stdout' = Append(stdout, line)

\* an exception nothing catches (the call at line 140 is not in a try):
\* the interpreter writes the traceback and the run ends
Raise(e) ==
    /\ exc' = e
    /\ stderr' = Append(stderr, Line("traceback", <<e>>, <<>>))
    /\ pc' = "exit"

\* lines 137-142: the script's entry point
Main ==
    /\ pc = "main"
    /\ IF Len(argv) > 0
       THEN /\ pc' = "load"
            /\ UNCHANGED stdout
       ELSE /\ pc' = "exit"
            /\ Say(Line("usage", <<>>, <<>>))
    /\ UNCHANGED <<argv, fileState, csv, image, saves, exc, stderr, df, figure,
                   subjects, i, category, medians, boxes, points, markers,
                   xticks, shown>>

\* the exceptions pd.read_csv raises on a file it can open but not parse
ParseErrors == {"EmptyDataError", "ParserError", "UnicodeDecodeError"}

\* the try of lines 13-17 without its except clause
TryReadUncaught(state) == IF state = "ok" THEN "frame" ELSE "raised"

\* a mishandling of the try of lines 13-17: every exception is swallowed
\* and the script goes on with what it has
TryReadSwallow(state) == "frame"

\* lines 13-17: how the try around pd.read_csv ends.  FileNotFoundError is
\* the one exception it catches
TryRead(state) ==
    CASE state = "missing" -> "caught"
      [] state = "unreadable" -> "raised"
      [] OTHER -> "frame"

\* lines 13-17: read the file
Load ==
    /\ pc = "load"
    /\ CASE TryRead(fileState) = "caught" ->
              /\ Say(Line("not_found", argv, <<>>))
              /\ pc' = "exit"
              /\ UNCHANGED <<df, exc, stderr>>
         [] TryRead(fileState) = "raised" ->
              /\ \E e \in ParseErrors : Raise(e)
              /\ UNCHANGED <<df, stdout>>
         [] OTHER ->
              /\ df' = read_csv(csv)
              /\ pc' = "validate"
              /\ UNCHANGED <<stdout, exc, stderr>>
    /\ UNCHANGED <<argv, fileState, csv, image, saves, figure, subjects, i,
                   category, medians, boxes, points, markers, xticks, shown>>

\* line 20: the column names with surrounding whitespace removed
StrippedColumns(frame) ==
    [j \in DOMAIN frame.columns |-> strip(frame.columns[j])]

\* lines 25-28: the first required column the frame does not have, or 0
FirstMissing(frame) ==
    LET miss == {k \in DOMAIN required : Positions(frame, required[k]) = {}}
    IN  IF miss = {} THEN 0
        ELSE CHOOSE k \in miss : \A m \in miss : k <= m

\* lines 19-28: clean the column names and check the required ones
Validate ==
    /\ pc = "validate"
    /\ LET frame == [df EXCEPT !.columns = StrippedColumns(df)]
           k == FirstMissing(frame)
       IN  /\ df' = frame
           /\ IF k # 0
              THEN /\ Say(Line("missing", required[k], frame.columns))
                   /\ pc' = "exit"
              ELSE /\ pc' = "setup"
                   /\ UNCHANGED stdout
    /\ UNCHANGED <<argv, fileState, csv, image, saves, exc, stderr, figure,
                   subjects, i, category, medians, boxes, points, markers,
                   xticks, shown>>

\* line 31: the 'Stress or not' column replaced by its categorical
WithCategories(frame) ==
    LET j == CHOOSE j \in Positions(frame, StressCol) : TRUE
        cat == Categorical(Series(frame, StressCol))
    IN  [frame EXCEPT !.rows =
            [r \in DOMAIN frame.rows |-> [frame.rows[r] EXCEPT ![j] = cat[r]]]]

\* lines 30-44: category order, the figure, the subjects.  A label two
\* columns carry selects a frame, which has no unique(): line 36 raises.
\* (The inputs never repeat 'HRV (ms)' or 'Stress or not'.)
Setup ==
    /\ pc = "setup"
    /\ df' = WithCategories(df)
    /\ figure' = TRUE
    /\ IF Cardinality(Positions(df, SubjectCol)) > 1
       THEN /\ Raise("AttributeError")
            /\ UNCHANGED subjects
       ELSE /\ subjects' = unique(Series(df, SubjectCol))
            /\ pc' = IF subjects' = <<>> THEN "compose" ELSE "group"
            /\ UNCHANGED <<exc, stderr>>
    /\ i' = 0
    /\ category' = 1
    /\ medians' = <<>>
    /\ UNCHANGED <<argv, fileState, csv, image, saves, stdout, boxes,
                   points, markers, xticks, shown>>

\* line 50: the measurements of the rows of one subject and one category,
\* in the order of the rows
Selection(frame, sub, cat) ==
    LET subj == Series(frame, SubjectCol)
        label == Series(frame, StressCol)
        hrv == Series(frame, HRVCol)
        Match(r) == subj[r] = sub /\ label[r] = cat
        hit == SelectSeq([r \in DOMAIN frame.rows |-> r], Match)
    IN  [k \in DOMAIN hit |-> Float(hrv[hit[k]])]

\* the two sides exchanged
XPosSwapped(n, cat) == IF cat = "Yes" THEN 100 * n + offset ELSE 100 * n - offset

\* line 55: 'Yes' to the left of the subject, 'No' to the right
XPos(n, cat) == IF cat = "Yes" THEN 100 * n - offset ELSE 100 * n + offset

Put(dict, key, value) ==
    [k \in DOMAIN dict \cup {key} |-> IF k = key THEN value ELSE dict[k]]

\* lines 49-84: one pass of the inner loop, for subject i and one category
Group ==
    /\ pc = "group"
    /\ LET sub == subjects[i + 1]
           cat == Categories[category]
           cat_data == Selection(df, sub, cat)
           x_pos == XPos(i, cat)
       IN  IF cat_data = <<>>
           THEN UNCHANGED <<medians, boxes, points>>
           ELSE /\ medians' = Put(medians, cat, median(cat_data))
                /\ boxes' = Append(boxes,
                       [position |-> x_pos, width |-> box_width,
                        data |-> cat_data, color |-> colors[cat]])
                /\ \E jitter \in [DOMAIN cat_data -> Jitters] :
                       points' = points \o
                           [k \in DOMAIN cat_data |->
                               [x |-> x_pos + jitter[k], y |-> cat_data[k],
                                color |-> colors[cat]]]
    /\ IF category < Len(Categories)
       THEN /\ category' = category + 1
            /\ pc' = "group"
       ELSE /\ pc' = "threshold"
            /\ UNCHANGED category
    /\ UNCHANGED <<argv, fileState, csv, image, saves, stdout, exc, stderr, df,
                   figure, subjects, i, markers, xticks, shown>>

\* line 88 without its parentheses
MidpointUnbracketed(m) == m["Yes"] + (m["No"] \div 2)

\* line 88
Midpoint(m) == (m["Yes"] + m["No"]) \div 2

\* lines 86-98, and the step to the next subject (lines 47-48)
Threshold ==
    /\ pc = "threshold"
    /\ IF "Yes" \in DOMAIN medians /\ "No" \in DOMAIN medians
       THEN markers' = Append(markers, [x |-> 100 * i, y |-> Midpoint(medians)])
       ELSE UNCHANGED markers
    /\ IF i + 1 < Len(subjects)
       THEN /\ i' = i + 1
            /\ category' = 1
            /\ medians' = <<>>
            /\ pc' = "group"
       ELSE /\ pc' = "compose"
            /\ UNCHANGED <<i, category, medians>>
    /\ UNCHANGED <<argv, fileState, csv, image, saves, stdout, exc, stderr, df,
                   figure, subjects, boxes, points, xticks, shown>>

\* line 105: one tick per subject, at range(len(subjects))
Ticks(subs) ==
    [positions |-> [k \in DOMAIN subs |-> 100 * (k - 1)], labels |-> subs]

\* lines 100-125: title, axis labels, ticks, grid, legend
Compose ==
    /\ pc = "compose"
    /\ xticks' = Ticks(subjects)
    /\ pc' = "save"
    /\ UNCHANGED <<argv, fileState, csv, image, saves, stdout, exc, stderr, df,
                   figure, subjects, i, category, medians, boxes, points,
                   markers, shown>>

\* lines 127-129: write the image, then report it
Save ==
    /\ pc = "save"
    /\ image' = "plot"
    /\ saves' = saves + 1
    /\ Say(Line("saved", <<output_png>>, <<>>))
    /\ pc' = "show"
    /\ UNCHANGED <<argv, fileState, csv, exc, stderr, df, figure, subjects, i,
                   category, medians, boxes, points, markers, xticks, shown>>

\* lines 131-135 without the try: an exception from the viewer ends the run
ShowUncaught ==
    /\ pc = "show"
    /\ \/ /\ shown' = "window"
          /\ pc' = "exit"
          /\ UNCHANGED <<exc, stderr>>
       \/ /\ shown' = "failed"
          /\ Raise("TclError")
    /\ UNCHANGED <<argv, fileState, csv, image, saves, stdout, df, figure,
                   subjects, i, category, medians, boxes, points, markers,
                   xticks>>

\* lines 131-135: open the viewer; an exception from it is caught
Show ==
    /\ pc = "show"
    /\ \/ /\ shown' = "window"
          /\ UNCHANGED stdout
       \/ /\ shown' = "failed"
          /\ Say(Line("note", <<>>, <<>>))
    /\ pc' = "exit"
    /\ UNCHANGED <<argv, fileState, csv, image, saves, exc, stderr, df, figure,
                   subjects, i, category, medians, boxes, points, markers,
                   xticks>>

Next ==
    \/ Main
    \/ Load
    \/ Validate
    \/ Setup
    \/ Group
    \/ Threshold
    \/ Compose
    \/ Save
    \/ Show

Spec == Init /\ [][Next]_vars

SpecHeaders == InitHeaders /\ [][Next]_vars

---------------------------------------------------------------------------
(* What the input says, read off the file itself *)

\* name is label with nothing but whitespace added before and after it
Padded(name, label) ==
    \E a \in 0..Len(name) :
        /\ a + Len(label) <= Len(name)
        /\ \A k \in 1..a : IsSpace(name[k])
        /\ \A k \in 1..Len(label) : name[a + k] = label[k]
        /\ \A k \in (a + Len(label) + 1)..Len(name) : IsSpace(name[k])

Trimmed(name) ==
    name = <<>> \/ (~IsSpace(name[1]) /\ ~IsSpace(name[Len(name)]))

\* the columns of the file whose header name is the label, padding aside
ColumnsNamed(label) == {j \in DOMAIN csv.header : Padded(csv.header[j], label)}

HasColumn(label) == ColumnsNamed(label) # {}

HasRequired == \A k \in DOMAIN required : HasColumn(required[k])

\* the run was given a file it could read
Loaded == argv # <<>> /\ fileState = "ok"

\* the rows of the file as records (of a file that has the three columns)
ColumnNamed(label) == CHOOSE j \in ColumnsNamed(label) : TRUE

Records ==
    LET s == ColumnNamed(SubjectCol)
        h == ColumnNamed(HRVCol)
        c == ColumnNamed(StressCol)
    IN  [r \in DOMAIN csv.rows |->
            [subject |-> csv.rows[r][s], hrv |-> csv.rows[r][h],
             stress |-> csv.rows[r][c]]]

ValidRow(rec) == rec.stress \in {"Yes", "No"}

SubjectsOf(recs) == {recs[r].subject : r \in DOMAIN recs}

FirstRow(recs, s) ==
    CHOOSE r \in DOMAIN recs :
        recs[r].subject = s /\ \A q \in 1..(r - 1) : recs[q].subject # s

\* the subjects in the order in which the table first mentions them
OrderOf(recs) ==
    LET S == SubjectsOf(recs)
        first == [s \in S |-> FirstRow(recs, s)]
    IN  [k \in 1..Cardinality(S) |->
            CHOOSE s \in S : Cardinality({t \in S : first[t] < first[s]}) = k - 1]

\* the rows of subject s labelled c
GroupRows(recs, s, c) ==
    {r \in DOMAIN recs : recs[r].subject = s /\ recs[r].stress = c}

\* their measurements (in ms), in the order of the rows
GroupValues(recs, s, c) ==
    LET G == GroupRows(recs, s, c)
    IN  [k \in 1..Cardinality(G) |->
            recs[CHOOSE r \in G : Cardinality({q \in G : q < r}) = k - 1].hrv]

\* the groups of a table: for the k-th subject and each category, the
\* measurements of its rows
GroupsOf(recs) ==
    LET ord == OrderOf(recs)
    IN  [k \in DOMAIN ord |->
            [c \in Range(Categories) |-> GroupValues(recs, ord[k], c)]]

\* the k-th smallest of a non-empty sequence of values
Kth(v, k) ==
    LET Before(a, b) == v[a] < v[b] \/ (v[a] = v[b] /\ a < b)
    IN  v[CHOOSE b \in DOMAIN v :
              Cardinality({a \in DOMAIN v : Before(a, b)}) = k - 1]

\* twice the median of a non-empty sequence of values
TwiceMedian(v) ==
    LET n == Len(v)
    IN  IF n % 2 = 1 THEN 2 * Kth(v, (n + 1) \div 2)
        ELSE Kth(v, n \div 2) + Kth(v, (n \div 2) + 1)

RECURSIVE Sum(_)
Sum(v) == IF v = <<>> THEN 0 ELSE Head(v) + Sum(Tail(v))

\* the script has determined the subjects and is drawing, or has drawn
Rendering ==
    \/ pc \in {"group", "threshold", "compose", "save", "show"}
    \/ pc = "exit" /\ saves > 0

\* the loop is through with category c (by index) of subject k (by index
\* from 1)
Handled(k, c) ==
    \/ pc \in {"compose", "save", "show"}
    \/ pc = "exit" /\ saves > 0
    \/ pc = "threshold" /\ k <= i + 1
    \/ pc = "group" /\ (k <= i \/ (k = i + 1 /\ c < category))

\* the loop is through with subject k, threshold included
Finished(k) ==
    \/ pc \in {"compose", "save", "show"}
    \/ pc = "exit" /\ saves > 0
    \/ pc \in {"group", "threshold"} /\ k <= i

TicksSet == pc \in {"save", "show"} \/ (pc = "exit" /\ saves > 0)

\* the file holds table t, under whatever header
IsTable(t) ==
    /\ Loaded /\ HasRequired
    /\ Records = [r \in DOMAIN t |->
          [subject |-> t[r].subject, hrv |-> t[r].hrv, stress |-> t[r].stress]]

\* where the claims put the group of subject k (from 1) and category c
Centre(k, c) == IF c = "Yes" THEN 100 * (k - 1) - 20 ELSE 100 * (k - 1) + 20

Abs(n) == IF n < 0 THEN -n ELSE n

NoErrorReported ==
    /\ \A k \in DOMAIN stdout : stdout[k].kind \notin {"missing", "not_found"}
    /\ stderr = <<>>
    /\ exc = "none"

NothingDrawn == boxes = <<>> /\ points = <<>> /\ markers = <<>> /\ xticks = <<>>

ImageUntouched == saves = 0 /\ image = "untouched"

Start == Line("start", <<>>, <<>>)

---------------------------------------------------------------------------
(* C1: a file that lacks a required column (names compared with the       *)
(* whitespace around them removed) is never rendered: the script prints   *)
(* one error naming a column that is missing and listing the columns it   *)
(* found, returns without an exception, and hrv_stress_plot.png is         *)
(* neither written nor overwritten.                                       *)
C1_SchemaError ==
    (Loaded /\ ~HasRequired) =>
        /\ ImageUntouched
        /\ ~figure
        /\ NothingDrawn
        /\ pc \in {"main", "load", "validate", "exit"}
        /\ pc = "exit" =>
              /\ exc = "none" /\ stderr = <<>>
              /\ Len(stdout) = 2
              /\ stdout[1] = Start
              /\ stdout[2].kind = "missing"
              /\ stdout[2].arg \in Range(required)
              /\ ~HasColumn(stdout[2].arg)
              /\ LET found == stdout[2].found
                     named == read_csv_columns(csv.header)
                 IN  /\ Len(found) = Len(named)
                     /\ \A j \in DOMAIN found :
                            Trimmed(found[j]) /\ Padded(named[j], found[j])

\* a padded header that lacks 'Stress or not' has been reported
C1_Witness ==
    /\ Loaded /\ ~HasRequired /\ pc = "exit"
    /\ HasColumn(SubjectCol) /\ HasColumn(HRVCol)
    /\ stdout[2].arg = StressCol
    /\ \E j \in DOMAIN csv.header : ~Trimmed(csv.header[j])

(* C2: for a path that names no file the script prints one error naming   *)
(* the path and returns: no figure is created and hrv_stress_plot.png is  *)
(* neither written nor overwritten.                                       *)
C2_InputNotFound ==
    (argv # <<>> /\ fileState = "missing") =>
        /\ ImageUntouched
        /\ ~figure
        /\ NothingDrawn
        /\ pc \in {"main", "load", "exit"}
        /\ pc = "exit" =>
              /\ exc = "none" /\ stderr = <<>>
              /\ stdout = <<Start, Line("not_found", argv, <<>>)>>

C2_Witness ==
    /\ argv # <<>> /\ fileState = "missing" /\ pc = "exit"
    /\ stdout[Len(stdout)].kind = "not_found"

(* C7: a failure of the load other than file-not-found is reported (the   *)
(* exception reaches the interpreter, which writes its traceback) and     *)
(* ends the run there: nothing is drawn, no figure is created, and        *)
(* hrv_stress_plot.png is neither written nor modified.                   *)
C7_LoadFailureReported ==
    (argv # <<>> /\ fileState = "unreadable") =>
        /\ ImageUntouched
        /\ ~figure
        /\ NothingDrawn
        /\ df = NoFrame
        /\ pc \in {"main", "load", "exit"}
        /\ pc = "exit" =>
              /\ exc \in ParseErrors
              /\ stderr = <<Line("traceback", <<exc>>, <<>>)>>
              /\ stdout = <<Start>>

C7_Witness ==
    /\ argv # <<>> /\ fileState = "unreadable" /\ pc = "exit"
    /\ exc = "ParserError"

---------------------------------------------------------------------------
(* C3: every readable file whose header has the three required columns,   *)
(* however padded, and that has a row labelled Yes or No, ends with       *)
(* hrv_stress_plot.png written exactly once and no error reported.        *)
C3_AlwaysRenders ==
    ( /\ pc = "exit"
      /\ Loaded /\ HasRequired
      /\ \E r \in DOMAIN Records : ValidRow(Records[r]) )
    => /\ saves = 1
       /\ image = "plot"
       /\ NoErrorReported
       /\ Cardinality({k \in DOMAIN stdout : stdout[k].kind = "saved"}) = 1

\* the same for the headers in which no two names are one label once
\* trimmed: this holds
DistinctLabels ==
    \A j, m \in DOMAIN csv.header :
        \A k \in DOMAIN required :
            (Padded(csv.header[j], required[k])
               /\ Padded(csv.header[m], required[k])) => j = m

C3_RendersDistinctLabels == DistinctLabels => C3_AlwaysRenders

(* C4: the subjects are drawn and labelled in the order in which the      *)
(* table first mentions them: the k-th of them has its groups at base     *)
(* position k - 1 and its name on tick k - 1, one tick per subject; the   *)
(* rows B, A, B, C, A give B, A, C.                                       *)
C4_FirstAppearanceOrder ==
    (Rendering /\ Loaded /\ HasRequired) =>
        LET recs == Records
            ord == OrderOf(recs)
            groups == GroupsOf(recs)
        IN  /\ subjects = ord
            /\ \A b \in Range(boxes) :
                  \E k \in DOMAIN ord, c \in Range(Categories) :
                      /\ b.position = Centre(k, c)
                      /\ groups[k][c] # <<>>
                      /\ b.data = [n \in DOMAIN groups[k][c] |->
                                      4 * groups[k][c][n]]
            /\ TicksSet =>
                  /\ xticks.labels = ord
                  /\ xticks.positions = [k \in DOMAIN ord |-> 100 * (k - 1)]
            /\ IsTable(ExampleOrder) => subjects = <<"B", "A", "C">>

C4_Witness ==
    /\ IsTable(ExampleOrder) /\ pc = "exit"
    /\ xticks.labels = <<"B", "A", "C">>
    /\ Len(boxes) = 5

(* C5: a subject gets a threshold marker exactly when it has rows labelled *)
(* Yes and rows labelled No; it then gets one marker, at its base position *)
(* and at the mean of the medians of its own two groups (medians 50 and   *)
(* 70 give 60).                                                           *)
C5_ThresholdMarker ==
    (Rendering /\ Loaded /\ HasRequired) =>
        LET groups == GroupsOf(Records)
        IN  /\ \A k \in DOMAIN groups :
                  LET yes == groups[k]["Yes"]
                      no == groups[k]["No"]
                      mine == {n \in DOMAIN markers :
                                  markers[n].x = 100 * (k - 1)}
                  IN  IF Finished(k) /\ yes # <<>> /\ no # <<>>
                      THEN /\ Cardinality(mine) = 1
                           /\ \A n \in mine :
                                  markers[n].y
                                      = TwiceMedian(yes) + TwiceMedian(no)
                      ELSE mine = {}
            /\ \A n \in DOMAIN markers :
                  \E k \in DOMAIN groups : markers[n].x = 100 * (k - 1)
            /\ (IsTable(ExampleThreshold) /\ Finished(2)) =>
                  markers = <<[x |-> 100, y |-> 4 * 60]>>

C5_Witness ==
    /\ IsTable(ExampleThreshold) /\ pc = "exit"
    /\ markers = <<[x |-> 100, y |-> 4 * 60]>>
    /\ Len(boxes) = 3

(* C6: the median of a group is the median of the measurements of exactly *)
(* the rows of that subject and category (the mean of the two middle      *)
(* values when their number is even: 40, 42, 44, 46 give 43, and the box  *)
(* drawn from them has mean 43); whatever jitter is drawn, the median,    *)
(* the values the box is drawn from and the threshold are the same.       *)
C6_Median ==
    (pc \in {"group", "threshold"} /\ Loaded /\ HasRequired) =>
        LET groups == GroupsOf(Records)
        IN  /\ \A c \in DOMAIN Categories :
                  LET v == groups[i + 1][Categories[c]]
                  IN  IF Handled(i + 1, c) /\ v # <<>>
                      THEN /\ Categories[c] \in DOMAIN medians
                           /\ medians[Categories[c]] = 2 * TwiceMedian(v)
                           /\ \E b \in Range(boxes) :
                                  /\ b.position = Centre(i + 1, Categories[c])
                                  /\ b.data = [n \in DOMAIN v |-> 4 * v[n]]
                      ELSE Categories[c] \notin DOMAIN medians
            /\ \A n \in DOMAIN markers :
                  \E k \in DOMAIN groups :
                      /\ groups[k]["Yes"] # <<>> /\ groups[k]["No"] # <<>>
                      /\ markers[n].x = 100 * (k - 1)
                      /\ markers[n].y = TwiceMedian(groups[k]["Yes"])
                                          + TwiceMedian(groups[k]["No"])
            /\ (IsTable(ExampleMedian) /\ Handled(1, 1)) =>
                  /\ medians["Yes"] = 4 * 43
                  /\ Sum(boxes[1].data) = Len(boxes[1].data) * (4 * 43)

C6_Witness ==
    /\ IsTable(ExampleMedian) /\ pc = "threshold"
    /\ medians["Yes"] = 4 * 43
    /\ \E n, m \in DOMAIN points : points[n].x # points[m].x

(* C8: the viewer is opened only after hrv_stress_plot.png has been       *)
(* written and the success line printed; when opening it fails the        *)
(* script prints a note and no more, raises nothing, and the image stays  *)
(* as written.                                                            *)
C8_ShowAfterSave ==
    /\ (pc = "show" \/ shown # "no") =>
          /\ saves = 1
          /\ image = "plot"
          /\ \E k \in DOMAIN stdout :
                /\ stdout[k] = Line("saved", <<output_png>>, <<>>)
                /\ \A m \in (k + 1)..Len(stdout) : stdout[m].kind = "note"
    /\ shown = "failed" =>
          /\ pc = "exit"
          /\ stdout[Len(stdout)].kind = "note"
          /\ stdout[Len(stdout) - 1].kind = "saved"
          /\ NoErrorReported
    /\ shown = "window" =>
          /\ pc = "exit"
          /\ stdout[Len(stdout)].kind = "saved"
          /\ NoErrorReported

C8_Witness == shown = "failed" /\ pc = "exit" /\ image = "plot" /\ boxes # <<>>

(* C9: once the header has passed validation, a subject and category    *)
(* with no rows (a subject with rows of one category only; rows labelled  *)
(* neither Yes nor No belong to no group) gets no box, no points and no   *)
(* median, no error is reported, the remaining groups are drawn and       *)
(* hrv_stress_plot.png is written.                                        *)
C9_EmptyGroupsBenign ==
    (pc \notin {"main", "load", "validate"} /\ Loaded /\ HasRequired) =>
        LET groups == GroupsOf(Records)
        IN  \A k \in DOMAIN groups, c \in DOMAIN Categories :
                groups[k][Categories[c]] = <<>> =>
                    /\ NoErrorReported
                    /\ \A b \in Range(boxes) :
                          b.position # Centre(k, Categories[c])
                    /\ \A n \in DOMAIN points :
                          Abs(points[n].x - Centre(k, Categories[c])) > 4
                    /\ (pc \in {"group", "threshold"} /\ k = i + 1) =>
                          Categories[c] \notin DOMAIN medians
                    /\ pc = "exit" =>
                          /\ saves = 1 /\ image = "plot"
                          /\ \A m \in DOMAIN groups, d \in Range(Categories) :
                                groups[m][d] # <<>> =>
                                    \E b \in Range(boxes) :
                                        b.position = Centre(m, d)

\* the same for the headers in which no two names are one label once
\* trimmed: this holds
C9_BenignDistinctLabels == DistinctLabels => C9_EmptyGroupsBenign

\* a run that met an empty group and rows of no group, and drew the rest
C9_SkipReached ==
    /\ IsTable(ExampleThreshold) /\ DistinctLabels /\ pc = "exit"
    /\ saves = 1 /\ Len(boxes) = 3

\* the points the claims expect once the loop is through with the first p
\* of the pairs (subject, category), in the order of the loop
RECURSIVE ExpectedPoints(_, _)
ExpectedPoints(groups, p) ==
    IF p = 0 THEN <<>>
    ELSE LET k == (p + 1) \div 2
             c == ((p - 1) % 2) + 1
             v == groups[k][Categories[c]]
         IN  ExpectedPoints(groups, p - 1) \o
             (IF Handled(k, c)
              THEN [n \in DOMAIN v |-> [k |-> k, cat |-> Categories[c], y |-> v[n]]]
              ELSE <<>>)

(* C10: each measurement of a non-empty group is drawn as one point, at   *)
(* the measurement vertically and within 0.04 of i - 0.2 (Yes) or of      *)
(* i + 0.2 (No) horizontally, i being the base position of its subject:   *)
(* Yes points lie strictly left of i, No points strictly right, and       *)
(* points of different groups never share a horizontal position.          *)
C10_ScatterPoints ==
    (Rendering /\ Loaded /\ HasRequired) =>
        LET groups == GroupsOf(Records)
            e == ExpectedPoints(groups, 2 * Len(groups))
        IN  /\ Len(points) = Len(e)
            /\ \A n \in DOMAIN e :
                  /\ points[n].y = 4 * e[n].y
                  /\ Abs(points[n].x - Centre(e[n].k, e[n].cat)) <= 4
                  /\ e[n].cat = "Yes" => points[n].x < 100 * (e[n].k - 1)
                  /\ e[n].cat = "No" => points[n].x > 100 * (e[n].k - 1)
            /\ \A n, m \in DOMAIN e :
                  (n < m /\ <<e[n].k, e[n].cat>> # <<e[m].k, e[m].cat>>) =>
                      points[n].x < points[m].x

C10_Witness ==
    /\ IsTable(ExampleOrder) /\ pc = "exit"
    /\ Len(points) = 5
    /\ points[1].x = -24 /\ points[3].x = 84 /\ points[4].x = 116

=============================================================================
